---- MODULE Spec2Model ----
(***************************************************************************)
(* Complaint registries (embedding strategy and keyword strategy) and the *)
(* feedback matrix aggregator of the redditScraper repository.            *)
(*                                                                         *)
(* Texts are TLA+ strings handled character by character, so the regular  *)
(* expressions, the substring tests and the whitespace splitting of the   *)
(* Python code are computed, not assumed.                                 *)
(***************************************************************************)
EXTENDS Integers, Sequences, FiniteSets, TLC

(***************************************************************************)
(* Bounds of the model.                                                    *)
(***************************************************************************)
MaxCallsKeyword == 4  \* process_complaint calls on the keyword registry
MaxCallsEmbedding == 3  \* process_complaint calls on the embedding registry
MaxPosts == 2        \* posts handed to one analyze_feedback call
MaxRuns == 2         \* analyze_feedback calls in one behaviour
MaxPieces == 3       \* pieces an argument of a normalizer is made of
MaxWords == 2        \* words an argument of the categorizer is made of
MaxTexts == 2        \* texts of the posts handed to extract_complaints

(***************************************************************************)
(* Characters and the Python string primitives the code relies on.        *)
(***************************************************************************)
Char(s, i) == SubSeq(s, i, i)

\* s[i-1:j] of Python for 1 <= i and j <= len(s); empty when i > j
Slice(s, i, j) == IF i > j THEN "" ELSE SubSeq(s, i, j)

\* s.startswith(p, i-1): p occurs in s at position i
HasAt(s, i, p) == i + Len(p) - 1 <= Len(s) /\ SubSeq(s, i, i + Len(p) - 1) = p

UpperAlpha == "ABCDEFGHIJKLMNOPQRSTUVWXYZ"
LowerAlpha == "abcdefghijklmnopqrstuvwxyz"
Digits == "0123456789"

CharsOf(s) == {Char(s, i) : i \in 1..Len(s)}

\* \w of the re module, restricted to ASCII
WordChars == CharsOf(UpperAlpha) \cup CharsOf(LowerAlpha) \cup CharsOf(Digits) \cup {"_"}

IsWordChar(c) == c \in WordChars

LowerOf == [c \in CharsOf(UpperAlpha) |->
               Char(LowerAlpha, CHOOSE i \in 1..26 : Char(UpperAlpha, i) = c)]

LowerChar(c) == IF c \in DOMAIN LowerOf THEN LowerOf[c] ELSE c

\* the string made of Pick(i) for i = lo, ..., hi, in order; the range is
\* halved at each step
RECURSIVE Build(_, _, _)
Build(Pick(_), lo, hi) ==
    IF lo > hi THEN ""
    ELSE IF lo = hi THEN Pick(lo)
    ELSE LET mid == (lo + hi) \div 2
         IN  Build(Pick, lo, mid) \o Build(Pick, mid + 1, hi)

\* str.lower()
lower(s) == Build(LAMBDA i : LowerChar(Char(s, i)), 1, Len(s))

\* sub in s  (substring test)
Contains(s, sub) ==
    \E i \in 1..(Len(s) - Len(sub) + 1) : HasAt(s, i, sub)

\* s.startswith(p)
startswith(s, p) == HasAt(s, 1, p)

\* s.endswith(p)
endswith(s, p) == Len(s) >= Len(p) /\ HasAt(s, Len(s) - Len(p) + 1, p)

Min(S) == CHOOSE x \in S : \A y \in S : x <= y
Max(S) == CHOOSE x \in S : \A y \in S : x >= y

\* the first position at or after i whose character is in (inSet = TRUE) or
\* is not in (inSet = FALSE) the set cs; Len(s) + 1 if there is none
FirstFrom(s, i, cs, inSet) ==
    LET hits == {k \in i..Len(s) : (Char(s, k) \in cs) = inSet}
    IN  IF hits = {} THEN Len(s) + 1 ELSE Min(hits)

Spaces == {" ", "\t", "\n"}
SentenceEnds == {".", "!", "?"}

\* index of the last character of the run of non-space characters that
\* starts at i (i - 1 when position i holds a space or is past the end)
RunEnd(s, i) == FirstFrom(s, i, Spaces, TRUE) - 1

\* index of the first non-space character at or after i (Len(s) + 1 if none)
SkipSpaces(s, i) == FirstFrom(s, i, Spaces, FALSE)

\* str.split(): the maximal runs of non-space characters, in order
RECURSIVE SplitFrom(_, _)
SplitFrom(s, i) ==
    LET b == SkipSpaces(s, i)
    IN  IF b > Len(s) THEN <<>>
        ELSE LET e == RunEnd(s, b)
             IN  <<Slice(s, b, e)>> \o SplitFrom(s, e + 1)

split(s) == SplitFrom(s, 1)

\* ' '.join(words)
join(words) ==
    Build(LAMBDA i : IF i = 1 THEN words[i] ELSE " " \o words[i], 1, Len(words))

\* str.strip()
strip(s) ==
    LET kept == {k \in 1..Len(s) : Char(s, k) \notin Spaces}
    IN  IF kept = {} THEN "" ELSE Slice(s, Min(kept), Max(kept))

\* re.sub(r'http\S+|www\S+|https\S+', '', text).  The scan goes from the
\* left; 'http' or 'www' followed by at least one non-space character
\* matches and, \S+ being greedy, the match runs to the end of the run of
\* non-space characters.  So the character at p is removed exactly when a
\* match starts at some i <= p of the same run.
UrlStartsAt(s, i) ==
    \/ HasAt(s, i, "http") /\ i + 4 <= Len(s) /\ Char(s, i + 4) \notin Spaces
    \/ HasAt(s, i, "www") /\ i + 3 <= Len(s) /\ Char(s, i + 3) \notin Spaces

InUrl(s, p) ==
    \E i \in 1..p : UrlStartsAt(s, i) /\ \A k \in i..p : Char(s, k) \notin Spaces

sub_urls(s) == Build(LAMBDA p : IF InUrl(s, p) THEN "" ELSE Char(s, p), 1, Len(s))

\* re.sub(r'[^\w\s]', ' ', text) when keep = {}, and
\* re.sub(r'[^\w\s.!?]', ' ', text) when keep = {".", "!", "?"}
sub_punct(s, keep) ==
    Build(LAMBDA i : LET c == Char(s, i)
                     IN  IF IsWordChar(c) \/ c \in Spaces \/ c \in keep THEN c ELSE " ",
          1, Len(s))

\* re.split(r'[.!?]+', text): the pieces between runs of . ! ?
RECURSIVE SplitSentFrom(_, _)
SplitSentFrom(s, i) ==
    LET e == FirstFrom(s, i, SentenceEnds, TRUE) - 1
        piece == Slice(s, i, e)
    IN  IF e >= Len(s) THEN <<piece>>
        ELSE <<piece>> \o SplitSentFrom(s, FirstFrom(s, e + 1, SentenceEnds, FALSE))

split_sentences(s) == SplitSentFrom(s, 1)

Range(seq) == {seq[i] : i \in 1..Len(seq)}

\* the first element, whatever its length
MinByLen_first(seq) == seq[1]

\* min(seq, key=len): the first element of least length
MinByLen(seq) ==
    seq[CHOOSE i \in 1..Len(seq) :
            /\ \A j \in 1..Len(seq) : Len(seq[i]) <= Len(seq[j])
            /\ \A j \in 1..(i - 1) : Len(seq[j]) > Len(seq[i])]

(***************************************************************************)
(* SimpleLanguageModelProcessor: the keyword strategy.                    *)
(***************************************************************************)

\* Python's None, as returned by _extract_complaint_summary; no cleaned text
\* can equal it, since cleaning replaces < and > by spaces
None == "<None>"

\* self.complaint_keywords, in declaration order
complaint_keywords == <<
    [category |-> "camera", keywords |-> <<"camera", "photo", "picture", "sensor", "lens", "telephoto", "periscope", "ultrawide", "selfie">>],
    [category |-> "performance", keywords |-> <<"processor", "chip", "snapdragon", "dimensity", "performance", "speed", "fast", "slow", "lag", "stutter">>],
    [category |-> "battery", keywords |-> <<"battery", "charge", "charging", "power", "endurance", "life", "drain">>],
    [category |-> "storage", keywords |-> <<"storage", "memory", "ram", "ufs", "space", "gb", "microsd", "sd card">>],
    [category |-> "display", keywords |-> <<"screen", "display", "panel", "oled", "amoled", "brightness", "refresh rate", "hz", "resolution">>],
    [category |-> "design", keywords |-> <<"design", "look", "ugly", "beautiful", "glyph", "light", "back", "camera module", "build">>],
    [category |-> "price", keywords |-> <<"price", "expensive", "cheap", "value", "cost", "worth", "overpriced", "budget">>],
    [category |-> "software", keywords |-> <<"software", "os", "android", "update", "bug", "glitch", "feature", "ui", "ux">>],
    [category |-> "hardware", keywords |-> <<"button", "port", "usb", "jack", "speaker", "microphone", "fingerprint", "sensor">> ] >>

\* self.complaint_keywords.get(category, []) and self.complaint_keywords[category]
keywords_of(category) ==
    IF \E i \in 1..Len(complaint_keywords) : complaint_keywords[i].category = category
    THEN complaint_keywords[CHOOSE i \in 1..Len(complaint_keywords) :
                                complaint_keywords[i].category = category].keywords
    ELSE <<>>

complaint_indicators == <<
    "bad", "poor", "terrible", "awful", "horrible", "disappointing", "worst",
    "issue", "problem", "bug", "glitch", "fault", "fail", "broken",
    "doesn't work", "does not work", "not working", "lack of", "missing",
    "no ", "without", "expensive", "slow", "laggy", "buggy", "limited",
    "restricted", "difficult", "hard", "annoying", "weak", "short",
    "unreliable", "inconsistent", "unstable", "inadequate", "insufficient",
    "mediocre", "overpriced", "cheap", "flimsy", "uncomfortable",
    "worse", "inferior", "subpar", "below average", "disappointed",
    "frustrated", "annoyed", "upset", "complaint", "concern", "worry",
    "not worth", "waste", "regret", "should have", "would not recommend" >>

positive_indicators == <<
    "great", "good", "excellent", "amazing", "perfect", "best", "love",
    "recommend", "happy", "satisfied", "impressed", "pleased", "enjoy",
    "worth", "value", "solid", "reliable", "consistent", "stable" >>

\* any(x in text for x in seq)
ContainsAny(text, seq) == \E i \in 1..Len(seq) : Contains(text, seq[i])

\* the whitespace normalized before the special characters are replaced
clean_text_punct_last(text) == sub_punct(join(split(sub_urls(text))), {".", "!", "?"})

\* SimpleLanguageModelProcessor._clean_text
clean_text(text) == join(split(sub_punct(sub_urls(text), {".", "!", "?"})))

\* the score of one category: sum(1 for keyword in keywords if keyword in text)
category_score(text, keywords) ==
    Cardinality({i \in 1..Len(keywords) : Contains(text, keywords[i])})

\* the scores of the categories, in the order of the table: lines 36-38
category_scores_of(text) ==
    [i \in 1..Len(complaint_keywords) |->
        category_score(text, complaint_keywords[i].keywords)]

\* a later item replaces the running maximum also on an equal key
max_replaces_on_tie(key, max_key) == key >= max_key

\* max(): a later item replaces the running maximum when its key is greater
max_replaces(key, max_key) == key > max_key

\* max(category_scores.items(), key=lambda x: x[1]): the items are visited in
\* insertion order from the second on, best is the index of the running
\* maximum
RECURSIVE max_item(_, _, _)
max_item(scores, i, best) ==
    IF i > Len(scores) THEN best
    ELSE max_item(scores, i + 1,
                  IF max_replaces(scores[i], scores[best]) THEN i ELSE best)

\* SimpleLanguageModelProcessor._get_complaint_category; category_scores has
\* an item for every category of the table, so line 40 is never true
get_complaint_category(text) ==
    complaint_keywords[max_item(category_scores_of(lower(text)), 2, 1)].category

\* 5 <= len(sentence.split()) <= 25
reasonably_sized(sentence) == LET n == Len(split(sentence)) IN 5 <= n /\ n <= 25

\* the second loop without its keyword test: any sentence with a negative
\* word is taken as a feature discussion
extract_complaint_summary_any_negative(text0, category) ==
    LET text == clean_text(text0)
        pieces == split_sentences(text)
        stripped == [i \in 1..Len(pieces) |-> strip(pieces[i])]
        sentences == SelectSeq(stripped, LAMBDA x : x /= "")
        keywords == keywords_of(category)
        has_keyword(x) == ContainsAny(lower(x), keywords)
        has_complaint(x) == ContainsAny(lower(x), complaint_indicators)
        has_positive(x) == ContainsAny(lower(x), positive_indicators)
        feature_complaints ==
            SelectSeq(sentences, LAMBDA x : /\ reasonably_sized(x)
                                            /\ ~has_positive(x)
                                            /\ has_keyword(x) /\ has_complaint(x))
        feature_discussions ==
            SelectSeq(sentences, LAMBDA x : reasonably_sized(x) /\ has_complaint(x))
    IN  IF feature_complaints /= <<>> THEN MinByLen(feature_complaints) \o "."
        ELSE IF feature_discussions /= <<>> THEN MinByLen(feature_discussions) \o "."
        ELSE None

\* the second loop without its test of the complaint indicators: any
\* sentence with a keyword of the category is taken as a feature discussion
extract_complaint_summary_any_discussion(text0, category) ==
    LET text == clean_text(text0)
        pieces == split_sentences(text)
        stripped == [i \in 1..Len(pieces) |-> strip(pieces[i])]
        sentences == SelectSeq(stripped, LAMBDA x : x /= "")
        keywords == keywords_of(category)
        has_keyword(x) == ContainsAny(lower(x), keywords)
        has_complaint(x) == ContainsAny(lower(x), complaint_indicators)
        has_positive(x) == ContainsAny(lower(x), positive_indicators)
        feature_complaints ==
            SelectSeq(sentences, LAMBDA x : /\ reasonably_sized(x)
                                            /\ ~has_positive(x)
                                            /\ has_keyword(x) /\ has_complaint(x))
        feature_discussions ==
            SelectSeq(sentences, LAMBDA x : reasonably_sized(x) /\ has_keyword(x))
    IN  IF feature_complaints /= <<>> THEN MinByLen(feature_complaints) \o "."
        ELSE IF feature_discussions /= <<>> THEN MinByLen(feature_discussions) \o "."
        ELSE None

\* SimpleLanguageModelProcessor._extract_complaint_summary
extract_complaint_summary(text0, category) ==
    LET text == clean_text(text0)
        pieces == split_sentences(text)
        stripped == [i \in 1..Len(pieces) |-> strip(pieces[i])]
        sentences == SelectSeq(stripped, LAMBDA x : x /= "")
        keywords == keywords_of(category)
        has_keyword(x) == ContainsAny(lower(x), keywords)
        has_complaint(x) == ContainsAny(lower(x), complaint_indicators)
        has_positive(x) == ContainsAny(lower(x), positive_indicators)
        feature_complaints ==
            SelectSeq(sentences, LAMBDA x : /\ reasonably_sized(x)
                                            /\ ~has_positive(x)
                                            /\ has_keyword(x) /\ has_complaint(x))
        feature_discussions ==
            SelectSeq(sentences, LAMBDA x : /\ reasonably_sized(x)
                                            /\ has_keyword(x) /\ has_complaint(x))
    IN  IF feature_complaints /= <<>> THEN MinByLen(feature_complaints) \o "."
        ELSE IF feature_discussions /= <<>> THEN MinByLen(feature_discussions) \o "."
        ELSE None

\* the intersection with existing_words forgotten
matching_keywords_new_only(new_complaint, existing_complaint, category) ==
    Range(keywords_of(category)) \cap Range(split(new_complaint))

\* the keywords of the category that occur as whole words in both texts:
\* new_keywords.intersection(new_words).intersection(existing_words)
matching_keywords(new_complaint, existing_complaint, category) ==
    (Range(keywords_of(category)) \cap Range(split(new_complaint)))
        \cap Range(split(existing_complaint))

\* the comparison of the two categories forgotten
SLMP_is_similar_complaint_any_category(new_complaint0, existing_complaint0) ==
    LET new_complaint == lower(new_complaint0)
        existing_complaint == lower(existing_complaint0)
        new_category == get_complaint_category(new_complaint)
    IN  Cardinality(matching_keywords(new_complaint, existing_complaint,
                                      new_category)) >= 2

\* SimpleLanguageModelProcessor.is_similar_complaint
SLMP_is_similar_complaint(new_complaint0, existing_complaint0) ==
    LET new_complaint == lower(new_complaint0)
        existing_complaint == lower(existing_complaint0)
        new_category == get_complaint_category(new_complaint)
        existing_category == get_complaint_category(existing_complaint)
    IN  IF new_category /= existing_category THEN FALSE
        ELSE Cardinality(matching_keywords(new_complaint, existing_complaint,
                                           new_category)) >= 2

(***************************************************************************)
(* The texts handed to the keyword registry.  What the string functions   *)
(* make of them is tabulated by the definitions above; "@@ <<>>" leaves a  *)
(* function as it is and makes TLC compute the whole table once.          *)
(***************************************************************************)
KeywordInputs == {
    ",",
    "Bad battery!",
    "This thing is bad and weak overall",
    "The battery drains too fast and overheats constantly",
    "The battery is bad and weak overall",
    "The battery life is poor on this phone",
    "Charging is slow and the charge power is bad",
    "The battery endurance is weak and they drain quickly",
    "Bad battery life and the charge power and charging endurance just drain away",
    "The camera lens is bad and the battery power is poor",
    "Battery drains extremely quickly and the phone gets hot",
    "Great camera, love the photos",
    "The camera is great but also bad overall",
    "The great battery is bad ok. The battery is really weak and poor overall",
    "The battery is really weak and poor overall. The battery is bad today ok" }

clean_text_of == [t \in KeywordInputs |-> clean_text(t)] @@ <<>>

category_of == [t \in KeywordInputs |-> get_complaint_category(clean_text_of[t])] @@ <<>>

summary_of == [t \in KeywordInputs |->
                  extract_complaint_summary(clean_text_of[t], category_of[t])] @@ <<>>

Summaries == {summary_of[t] : t \in KeywordInputs} \ {None}

is_similar_of == [new_complaint \in Summaries, existing_complaint \in Summaries |->
                     SLMP_is_similar_complaint(new_complaint, existing_complaint)]
                 @@ <<>>

(***************************************************************************)
(* The complaints dictionary of both processors: a Python dict keeps its  *)
(* keys in insertion order, and assigning to an existing key keeps the    *)
(* key's position.                                                         *)
(***************************************************************************)
\* list(self.complaints.keys())
keys(cs) == [i \in 1..Len(cs) |-> cs[i].text]

\* self.complaints[key] += 1
dict_increment(cs, key) ==
    [i \in 1..Len(cs) |->
        IF cs[i].text = key THEN [cs[i] EXCEPT !.count = @ + 1] ELSE cs[i]]

\* self.complaints[key] = 1
dict_store(cs, key) ==
    IF key \in Range(keys(cs))
    THEN [i \in 1..Len(cs) |->
             IF cs[i].text = key THEN [cs[i] EXCEPT !.count = 1] ELSE cs[i]]
    ELSE Append(cs, [text |-> key, count |-> 1])

\* the index of the first existing complaint that is_similar_complaint
\* accepts for the summary; 0 if there is none
first_similar(cs, summary) ==
    Min({i \in 1..Len(cs) : is_similar_of[summary, cs[i].text]} \cup {Len(cs) + 1})
        % (Len(cs) + 1)

\* the loop without its return: every similar entry is incremented and the
\* summary is stored as well
SLMP_for_loop_no_return(cs, summary, first) ==
    IF first > 0
    THEN [complaints |->
              dict_store([i \in 1..Len(cs) |->
                             IF is_similar_of[summary, cs[i].text]
                             THEN [cs[i] EXCEPT !.count = @ + 1] ELSE cs[i]],
                         summary),
          outcome |-> "merged", candidate |-> summary, target |-> cs[first].text]
    ELSE [complaints |-> dict_store(cs, summary), outcome |-> "created",
          candidate |-> summary, target |-> summary]

\* SimpleLanguageModelProcessor.process_complaint, the for loop and the
\* statement after it: the first similar complaint is incremented and the
\* call returns; without one the summary is stored with the count 1
SLMP_for_loop(cs, summary, first) ==
    IF first > 0
    THEN [complaints |-> dict_increment(cs, cs[first].text), outcome |-> "merged",
          candidate |-> summary, target |-> cs[first].text]
    ELSE [complaints |-> dict_store(cs, summary), outcome |-> "created",
          candidate |-> summary, target |-> summary]

\* SimpleLanguageModelProcessor.process_complaint, once the text is cleaned
\* and its summary extracted
SLMP_if_summary(cs, cleaned_complaint, summary) ==
    IF cleaned_complaint = ""
    THEN [complaints |-> cs, outcome |-> "discarded", candidate |-> "", target |-> ""]
    ELSE IF summary = None
    THEN [complaints |-> cs, outcome |-> "discarded", candidate |-> cleaned_complaint,
          target |-> ""]
    ELSE SLMP_for_loop(cs, summary, first_similar(cs, summary))

\* SimpleLanguageModelProcessor.process_complaint: the new dictionary and
\* what the call did
SLMP_process_complaint(cs, complaint) ==
    SLMP_if_summary(cs, clean_text_of[complaint], summary_of[complaint])

(***************************************************************************)
(* LanguageModelProcessor: the embedding strategy.                        *)
(*                                                                         *)
(* An embedding is a vector of integers.  A similarity is kept exactly,   *)
(* as [d, n] standing for d / sqrt(n): the cosine of a and b is           *)
(* dot(a, b) / sqrt(|a|^2 |b|^2).  With a zero vector numpy divides 0.0   *)
(* by 0.0, which warns and yields nan: that is [d |-> 0, n |-> 0].  The   *)
(* rounding of floating point is not modelled.                            *)
(***************************************************************************)
dot(a, b) == a[1] * b[1] + a[2] * b[2]

NaN == [d |-> 0, n |-> 0]

IsNaN(x) == x.n = 0

\* LanguageModelProcessor.cosine_similarity
cosine_similarity(a, b) == [d |-> dot(a, b), n |-> dot(a, a) * dot(b, b)]

\* self.similarity_threshold = 0.85, as the fraction 17 / 20
ThresholdNum == 17
ThresholdDen == 20

\* x >= self.similarity_threshold on floats: false for nan
GeThreshold(x) ==
    /\ ~IsNaN(x) /\ x.d > 0
    /\ ThresholdDen * ThresholdDen * x.d * x.d >= ThresholdNum * ThresholdNum * x.n

\* a loop that keeps every complaint that reaches the threshold, instead of
\* the most similar one
Gt_any_qualifying(x, y) == GeThreshold(x)

\* x > y on floats: false as soon as one side is nan
Gt(x, y) ==
    /\ ~IsNaN(x) /\ ~IsNaN(y)
    /\ \/ x.d >= 0 /\ y.d < 0
       \/ x.d > 0 /\ y.d = 0
       \/ x.d > 0 /\ y.d > 0 /\ x.d * x.d * y.n > y.d * y.d * x.n
       \/ x.d < 0 /\ y.d < 0 /\ x.d * x.d * y.n < y.d * y.d * x.n

\* max_similarity = -1
InitialMax == [d |-> -1, n |-> 1]

\* the rejection of very short complaints forgotten
clean_complaint_no_rejection(text0) ==
    join(split(sub_punct(sub_urls(text0), {})))

\* LanguageModelProcessor._clean_complaint
clean_complaint(text0) ==
    LET text == join(split(sub_punct(sub_urls(text0), {})))
    IN  IF Len(split(text)) < 3 THEN "" ELSE text

\* the texts handed to the embedding registry, and their cleaned forms
EmbeddingInputs == {
    "ok",
    "battery dies fast",
    "battery dies fast!",
    "screen is dim",
    "see http://x.co phone gets hot" }

clean_complaint_of == [t \in EmbeddingInputs |-> clean_complaint(t)] @@ <<>>

CleanedTexts == {clean_complaint_of[t] : t \in EmbeddingInputs} \ {""}

\* the embeddings the provider may return for a text
Vectors == {<<0, 0>>, <<1, 0>>, <<3, 1>>, <<3, -1>>, <<6, -1>>}

\* the loop of is_similar_complaint over existing_complaints[i..]; acc holds
\* self.embeddings, max_similarity, most_similar_complaint, the number of
\* get_embedding calls made so far and whether one of them raised.  The
\* get_embedding call number failAt raises (0: none does).
RECURSIVE compare_loop(_, _, _, _, _, _)
compare_loop(existing_complaints, i, new_embedding, acc, prov, failAt) ==
    IF i > Len(existing_complaints) \/ acc.raised THEN acc
    ELSE LET complaint == existing_complaints[i]
             cached == complaint \in DOMAIN acc.embeddings
             ncalls == IF cached THEN acc.ncalls ELSE acc.ncalls + 1
         IN  IF ~cached /\ ncalls = failAt
             THEN [acc EXCEPT !.raised = TRUE, !.ncalls = ncalls]
             ELSE LET embs == IF cached THEN acc.embeddings
                              ELSE (complaint :> prov[complaint]) @@ acc.embeddings
                      similarity == cosine_similarity(new_embedding, embs[complaint])
                      better == Gt(similarity, acc.max_similarity)
                  IN  compare_loop(existing_complaints, i + 1, new_embedding,
                          [embeddings |-> embs,
                           max_similarity |-> IF better THEN similarity
                                              ELSE acc.max_similarity,
                           most_similar_complaint |-> IF better THEN complaint
                                                      ELSE acc.most_similar_complaint,
                           scores |-> Append(acc.scores, similarity),
                           ncalls |-> ncalls,
                           raised |-> FALSE],
                          prov, failAt)

\* LanguageModelProcessor.is_similar_complaint
LMP_is_similar_complaint(new_complaint, existing_complaints, embs, prov, failAt) ==
    LET start == [embeddings |-> embs, max_similarity |-> InitialMax,
                  most_similar_complaint |-> "", scores |-> <<>>,
                  ncalls |-> 0, raised |-> FALSE]
    IN  IF existing_complaints = <<>>
        THEN start @@ [is_similar |-> FALSE]
        ELSE IF failAt = 1
        THEN [start EXCEPT !.raised = TRUE, !.ncalls = 1] @@ [is_similar |-> FALSE]
        ELSE LET r == compare_loop(existing_complaints, 1, prov[new_complaint],
                                   [start EXCEPT !.ncalls = 1], prov, failAt)
             IN  r @@ [is_similar |-> ~r.raised /\ GeThreshold(r.max_similarity)]

\* LanguageModelProcessor.process_complaint: the new dictionaries and what
\* the call did
LMP_process_complaint(cs, embs, prov, complaint_text, failAt) ==
    LET cleaned_complaint == clean_complaint_of[complaint_text]
        r == LMP_is_similar_complaint(cleaned_complaint, keys(cs), embs, prov, failAt)
        base == [complaints |-> cs, embeddings |-> embs, outcome |-> "discarded",
                 candidate |-> cleaned_complaint, target |-> "",
                 scores |-> <<>>, ncalls |-> 0, most_similar |-> ""]
    IN  IF cleaned_complaint = "" THEN base
        ELSE IF r.raised
        THEN [base EXCEPT !.embeddings = r.embeddings, !.outcome = "raised",
                          !.scores = r.scores, !.ncalls = r.ncalls]
        ELSE IF r.is_similar
        THEN [base EXCEPT !.complaints = dict_increment(cs, r.most_similar_complaint),
                          !.embeddings = r.embeddings, !.outcome = "merged",
                          !.target = r.most_similar_complaint,
                          !.scores = r.scores, !.ncalls = r.ncalls,
                          !.most_similar = r.most_similar_complaint]
        ELSE IF r.ncalls + 1 = failAt
        THEN [base EXCEPT !.complaints = dict_store(cs, cleaned_complaint),
                          !.embeddings = r.embeddings, !.outcome = "raised",
                          !.target = cleaned_complaint,
                          !.scores = r.scores, !.ncalls = r.ncalls + 1,
                          !.most_similar = r.most_similar_complaint]
        ELSE [base EXCEPT !.complaints = dict_store(cs, cleaned_complaint),
                          !.embeddings = (cleaned_complaint :> prov[cleaned_complaint])
                                             @@ r.embeddings,
                          !.outcome = "created", !.target = cleaned_complaint,
                          !.scores = r.scores, !.ncalls = r.ncalls + 1,
                          !.most_similar = r.most_similar_complaint]

(***************************************************************************)
(* State.                                                                  *)
(***************************************************************************)
VARIABLES
    processor,      \* which registry this behaviour runs: "embedding" or "keyword"
    complaints,     \* self.complaints, as the sequence of its items
    embeddings,     \* self.embeddings of LanguageModelProcessor
    provider,       \* the embedding the external provider returns for each text
    calls,          \* process_complaint calls made
    ingested,       \* calls that returned normally and did not discard the text
    failed,         \* calls that ended by an exception of get_embedding
    last,           \* what the last process_complaint call did, and its text
    feedback_matrix,     \* self.feedback_matrix of MultiPlatformFeedbackAnalyzer
    feedback_by_source,  \* self.feedback_by_source (no such attribute before the
                         \* first analyze_feedback call: the empty function)
    feedback_details,    \* self.feedback_details
    pc,             \* where analyze_feedback stands: "idle", "posts" or "items"
    runs,           \* analyze_feedback calls started
    posts_left,     \* posts of posts_data not yet taken by the for loop
    post,           \* the post of the current iteration
    items,          \* the items of feedback.items() not yet visited
    validated,      \* items of this call that passed the checks of lines 298-300
    item_outcome,   \* how the last iteration over feedback.items() ended
    accepted,       \* the rows of the items of this call that passed the checks
                    \* of lines 298-300, in the order the loops reached them
    fn,             \* the function a behaviour of the pure functions applies
    arg,            \* its argument
    out,            \* what it returned (None before the call)
    again,          \* what it returned when applied to out (None before that)
    texts,          \* extract_complaints: the texts of posts_data not yet taken
    extract_pc      \* extract_complaints: "running", "raised" or "returned"

registry_vars == <<processor, complaints, embeddings, provider, calls, ingested,
                   failed, last>>

feedback_vars == <<feedback_matrix, feedback_by_source, feedback_details, pc, runs,
                   posts_left, post, items, validated, item_outcome, accepted>>

pure_vars == <<fn, arg, out, again>>

extract_vars == <<texts, extract_pc>>

vars == <<registry_vars, feedback_vars, pure_vars, extract_vars>>

NoCall == [outcome |-> "none", candidate |-> "", target |-> "", scores |-> <<>>,
           most_similar |-> "", text |-> ""]

\* no registry is run
RegistryIdle ==
    /\ processor = "none"
    /\ complaints = <<>>
    /\ embeddings = <<>>
    /\ provider = <<>>
    /\ calls = 0
    /\ ingested = 0
    /\ failed = 0
    /\ last = NoCall

\* LanguageModelProcessor.__init__ and SimpleLanguageModelProcessor.__init__
RegistryInit ==
    /\ processor \in {"embedding", "keyword"}
    /\ complaints = <<>>
    /\ embeddings = <<>>
    /\ provider \in IF processor = "embedding" THEN [CleanedTexts -> Vectors] ELSE {<<>>}
    /\ calls = 0
    /\ ingested = 0
    /\ failed = 0
    /\ last = NoCall

Counted(outcome) == IF outcome \in {"merged", "created"} THEN 1 ELSE 0

\* one call of SimpleLanguageModelProcessor.process_complaint
KeywordProcessComplaint ==
    /\ processor = "keyword"
    /\ calls < MaxCallsKeyword
    /\ \E complaint \in KeywordInputs :
         \E r \in {SLMP_process_complaint(complaints, complaint)} :
            /\ complaints' = r.complaints
            /\ ingested' = ingested + Counted(r.outcome)
            /\ last' = [outcome |-> r.outcome, candidate |-> r.candidate,
                        target |-> r.target, scores |-> <<>>, most_similar |-> "",
                        text |-> complaint]
    /\ calls' = calls + 1
    /\ UNCHANGED <<processor, embeddings, provider, failed>>
    /\ UNCHANGED <<feedback_vars, pure_vars, extract_vars>>

\* one call of LanguageModelProcessor.process_complaint; the provider may
\* fail at any of the get_embedding calls the call makes
EmbeddingProcessComplaint ==
    /\ processor = "embedding"
    /\ calls < MaxCallsEmbedding
    /\ \E complaint_text \in EmbeddingInputs :
         \E failAt \in 0..LMP_process_complaint(complaints, embeddings, provider,
                                                complaint_text, 0).ncalls :
            \E r \in {LMP_process_complaint(complaints, embeddings, provider,
                                            complaint_text, failAt)} :
               /\ complaints' = r.complaints
               /\ embeddings' = r.embeddings
               /\ ingested' = ingested + Counted(r.outcome)
               /\ failed' = failed + (IF r.outcome = "raised" THEN 1 ELSE 0)
               /\ last' = [outcome |-> r.outcome, candidate |-> r.candidate,
                           target |-> r.target, scores |-> r.scores,
                           most_similar |-> r.most_similar,
                           text |-> complaint_text]
    /\ calls' = calls + 1
    /\ UNCHANGED <<processor, provider>>
    /\ UNCHANGED <<feedback_vars, pure_vars, extract_vars>>

(***************************************************************************)
(* MultiPlatformFeedbackAnalyzer.analyze_feedback, one step per post and  *)
(* per classified item.                                                    *)
(***************************************************************************)
\* self.feature_categories
feature_categories == <<"design", "camera", "performance", "battery",
                        "software features", "display", "price", "audio",
                        "build quality">>

\* self.feedback_types
feedback_types == <<"missing_feature", "poor_compared_to_competitor",
                    "unnecessary_feature", "awesome">>

\* the keys feedback_by_source is created with
source_keys == {"reddit", "youtube", "twitter"}

\* the 'source' tags the fetchers give to the posts
Sources == {"reddit_post", "reddit_comment", "youtube", "twitter"}

\* the prefixes that mark a summary without content
empty_summary_prefixes == <<"no specific", "no feedback", "no mention", "not provided",
                            "no comments">>

\* the classified items the provider may return for a feature: data is a
\* JSON object with a type and a summary ("" stands for a missing or empty
\* one), or it is not an object at all
ItemFeatures == {"camera", "battery", "gps"}
ItemTypes == {"missing_feature", "rant"}
ItemSummaries == {"", "No feedback provided", "Lacks zoom"}

Items ==
    [feature : ItemFeatures, is_object : {TRUE}, type : ItemTypes, summary : ItemSummaries]
        \cup [feature : {"camera", "gps"}, is_object : {FALSE}, type : {""}, summary : {""}]

\* feedback = json.loads(...): a JSON object holds a feature once; up to two
\* items are returned for a post
Responses ==
    {<<>>} \cup {<<a>> : a \in Items}
        \cup {ab \in Items \X Items : ab[1].feature /= ab[2].feature}

zero_matrix == [feature \in Range(feature_categories) |->
                   [feedback_type \in Range(feedback_types) |-> 0]]

\* the conditions of lines 298 and 300, without the test of the type
passes_validation_any_type(item) ==
    /\ item.feature \in Range(feature_categories)
    /\ item.summary /= ""
    /\ ~\E i \in 1..Len(empty_summary_prefixes) :
           startswith(lower(item.summary), empty_summary_prefixes[i])

\* the conditions of lines 298 and 300
passes_validation(item) ==
    /\ item.feature \in Range(feature_categories)
    /\ item.type \in Range(feedback_types)
    /\ item.summary /= ""
    /\ ~\E i \in 1..Len(empty_summary_prefixes) :
           startswith(lower(item.summary), empty_summary_prefixes[i])

passes_of == [item \in Items |-> item.is_object /\ passes_validation(item)] @@ <<>>

\* line 298 is false without an exception: the feature is no member of
\* feature_categories (data is not looked at), or data.get('type') is no
\* member of feedback_types
unknown_label(item) ==
    \/ item.feature \notin Range(feature_categories)
    \/ item.is_object /\ item.type \notin Range(feedback_types)

\* how the iteration of lines 297-312 ends for an item
item_outcome_of(item, passes, raised) ==
    IF raised THEN "raised"
    ELSE IF passes THEN "recorded"
    ELSE IF unknown_label(item) THEN "unknown_label"
    ELSE "no_content"

\* the row of lines 305-312 for an item of post p
detail_row(p, item) ==
    [title |-> p.title, feature |-> item.feature, feedback_type |-> item.type,
     summary |-> item.summary, url |-> p.url, source |-> p.source]

\* the source tally incremented before the matrix
record_item_tally_first(matrix, by_source, details, p, item) ==
    IF p.source \notin DOMAIN by_source
    THEN [matrix |-> matrix, by_source |-> by_source, details |-> details, raised |-> TRUE]
    ELSE [matrix |-> [matrix EXCEPT ![item.feature][item.type] = @ + 1],
          by_source |-> [by_source EXCEPT ![p.source] = @ + 1],
          details |-> Append(details,
                             [title |-> p.title, feature |-> item.feature,
                              feedback_type |-> item.type, summary |-> item.summary,
                              url |-> p.url, source |-> p.source]),
          raised |-> FALSE]

\* lines 301-312, for an item that passed the checks: the matrix cell is
\* incremented, then the source tally (a KeyError when post['source'] is no
\* key of it), then the detail row is appended
record_item(matrix, by_source, details, p, item) ==
    LET matrix1 == [matrix EXCEPT ![item.feature][item.type] = @ + 1]
    IN  IF p.source \notin DOMAIN by_source
        THEN [matrix |-> matrix1, by_source |-> by_source, details |-> details,
              raised |-> TRUE]
        ELSE [matrix |-> matrix1,
              by_source |-> [by_source EXCEPT ![p.source] = @ + 1],
              details |-> Append(details,
                                 [title |-> p.title, feature |-> item.feature,
                                  feedback_type |-> item.type, summary |-> item.summary,
                                  url |-> p.url, source |-> p.source]),
              raised |-> FALSE]

NoPost == [title |-> 0, url |-> 0, source |-> ""]

\* no analyzer is run
FeedbackIdle ==
    /\ feedback_matrix = zero_matrix
    /\ feedback_by_source = <<>>
    /\ feedback_details = <<>>
    /\ pc = "none"
    /\ runs = 0
    /\ posts_left = 0
    /\ post = NoPost
    /\ items = <<>>
    /\ validated = 0
    /\ item_outcome = "none"
    /\ accepted = <<>>

\* MultiPlatformFeedbackAnalyzer.__init__
FeedbackInit ==
    /\ feedback_matrix = zero_matrix
    /\ feedback_by_source = <<>>
    /\ feedback_details = <<>>
    /\ pc = "idle"
    /\ runs = 0
    /\ posts_left = 0
    /\ post = NoPost
    /\ items = <<>>
    /\ validated = 0
    /\ item_outcome = "none"
    /\ accepted = <<>>

\* analyze_feedback without the statement of lines 219-220: the matrix of the
\* call before is kept
AnalyzeFeedback_keeps_matrix ==
    /\ pc = "idle"
    /\ runs < MaxRuns
    /\ runs' = runs + 1
    /\ feedback_matrix' = feedback_matrix
    /\ feedback_by_source' = [k \in source_keys |-> 0]
    /\ feedback_details' = <<>>
    /\ posts_left' \in 0..MaxPosts
    /\ post' = NoPost
    /\ items' = <<>>
    /\ validated' = 0
    /\ accepted' = <<>>
    /\ item_outcome' = "none"
    /\ pc' = "posts"
    /\ UNCHANGED <<registry_vars, pure_vars, extract_vars>>

\* analyze_feedback is called with up to MaxPosts posts: lines 219-227
AnalyzeFeedback ==
    /\ pc = "idle"
    /\ runs < MaxRuns
    /\ runs' = runs + 1
    /\ feedback_matrix' = zero_matrix
    /\ feedback_by_source' = [k \in source_keys |-> 0]
    /\ feedback_details' = <<>>
    /\ posts_left' \in 0..MaxPosts
    /\ post' = NoPost
    /\ items' = <<>>
    /\ validated' = 0
    /\ accepted' = <<>>
    /\ item_outcome' = "none"
    /\ pc' = "posts"
    /\ UNCHANGED <<registry_vars, pure_vars, extract_vars>>

\* the for loop takes the next post and the provider classifies it: lines
\* 229-294.  The title and the url of a post are its number in this call.
ClassifyPost ==
    /\ pc = "posts"
    /\ posts_left > 0
    /\ posts_left' = posts_left - 1
    /\ \E source \in Sources, feedback \in Responses :
         /\ post' = [title |-> posts_left, url |-> posts_left, source |-> source]
         /\ items' = feedback
         /\ pc' = IF feedback = <<>> THEN "posts" ELSE "items"
    /\ item_outcome' = "none"
    /\ UNCHANGED <<feedback_matrix, feedback_by_source, feedback_details, runs, validated,
                   accepted>>
    /\ UNCHANGED <<registry_vars, pure_vars, extract_vars>>

\* the provider call or json.loads raises: lines 314-316 skip the post
ClassifyPostFails ==
    /\ pc = "posts"
    /\ posts_left > 0
    /\ posts_left' = posts_left - 1
    /\ \E source \in Sources :
         post' = [title |-> posts_left, url |-> posts_left, source |-> source]
    /\ item_outcome' = "none"
    /\ UNCHANGED <<feedback_matrix, feedback_by_source, feedback_details, pc, runs,
                   items, validated, accepted>>
    /\ UNCHANGED <<registry_vars, pure_vars, extract_vars>>

\* one iteration of the loop over feedback.items(): lines 297-312.  An
\* exception (data is no object, or the KeyError of the source tally) ends
\* the iterations of this post: lines 314-316.
ProcessItem ==
    /\ pc = "items"
    /\ items /= <<>>
    /\ LET item == Head(items)
           r == record_item(feedback_matrix, feedback_by_source, feedback_details,
                            post, item)
           raised == \/ item.feature \in Range(feature_categories) /\ ~item.is_object
                     \/ passes_of[item] /\ r.raised
       IN  /\ IF passes_of[item]
              THEN /\ feedback_matrix' = r.matrix
                   /\ feedback_by_source' = r.by_source
                   /\ feedback_details' = r.details
                   /\ validated' = validated + 1
                   /\ accepted' = Append(accepted, detail_row(post, item))
              ELSE UNCHANGED <<feedback_matrix, feedback_by_source, feedback_details,
                               validated, accepted>>
           /\ item_outcome' = item_outcome_of(item, passes_of[item], raised)
           /\ items' = IF raised THEN <<>> ELSE Tail(items)
           /\ pc' = IF raised \/ Tail(items) = <<>> THEN "posts" ELSE "items"
    /\ UNCHANGED <<runs, posts_left, post>>
    /\ UNCHANGED <<registry_vars, pure_vars, extract_vars>>

\* the for loop is over: analyze_feedback returns
AnalyzeFeedbackReturns ==
    /\ pc = "posts"
    /\ posts_left = 0
    /\ pc' = "idle"
    /\ UNCHANGED <<feedback_matrix, feedback_by_source, feedback_details, runs,
                   posts_left, post, items, validated, item_outcome, accepted>>
    /\ UNCHANGED <<registry_vars, pure_vars, extract_vars>>

(***************************************************************************)
(* The normalizers and the categorizer as functions of their argument.    *)
(***************************************************************************)
\* the strings made of at most n of the pieces, in any order
RECURSIVE texts_of(_, _)
texts_of(pieces, n) ==
    IF n = 0 THEN {""}
    ELSE LET shorter == texts_of(pieces, n - 1)
         IN  shorter \cup {s \o piece : s \in shorter, piece \in pieces}

\* parameter text of _clean_text and of _clean_complaint
NormalizerPieces == {"a b ", "c", ", ", "!", " ", "www.x ", "http"}

NormalizerInputs == texts_of(NormalizerPieces, MaxPieces)

\* parameter text of _get_complaint_category
CategorizerWords == {"camera ", "Sensor ", "usb ", "battery ", "hello "}

CategorizerInputs == texts_of(CategorizerWords, MaxWords)

Normalizers == {"_clean_text", "_clean_complaint"}

\* no pure function is applied
PureIdle ==
    /\ fn = "none"
    /\ arg = ""
    /\ out = None
    /\ again = None

\* the function to apply and its argument
PureInit ==
    /\ fn \in Normalizers \cup {"_get_complaint_category"}
    /\ arg \in IF fn \in Normalizers THEN NormalizerInputs ELSE CategorizerInputs
    /\ out = None
    /\ again = None

\* SimpleLanguageModelProcessor._clean_text(arg)
CleanText ==
    /\ fn = "_clean_text"
    /\ out = None
    /\ out' = clean_text(arg)
    /\ UNCHANGED <<fn, arg, again>>
    /\ UNCHANGED <<registry_vars, feedback_vars, extract_vars>>

\* SimpleLanguageModelProcessor._clean_text applied to its own result
CleanTextAgain ==
    /\ fn = "_clean_text"
    /\ out /= None
    /\ again = None
    /\ again' = clean_text(out)
    /\ UNCHANGED <<fn, arg, out>>
    /\ UNCHANGED <<registry_vars, feedback_vars, extract_vars>>

\* LanguageModelProcessor._clean_complaint(arg)
CleanComplaint ==
    /\ fn = "_clean_complaint"
    /\ out = None
    /\ out' = clean_complaint(arg)
    /\ UNCHANGED <<fn, arg, again>>
    /\ UNCHANGED <<registry_vars, feedback_vars, extract_vars>>

\* LanguageModelProcessor._clean_complaint applied to its own result
CleanComplaintAgain ==
    /\ fn = "_clean_complaint"
    /\ out /= None
    /\ again = None
    /\ again' = clean_complaint(out)
    /\ UNCHANGED <<fn, arg, out>>
    /\ UNCHANGED <<registry_vars, feedback_vars, extract_vars>>

\* SimpleLanguageModelProcessor._get_complaint_category(arg)
GetComplaintCategory ==
    /\ fn = "_get_complaint_category"
    /\ out = None
    /\ out' = get_complaint_category(arg)
    /\ UNCHANGED <<fn, arg, again>>
    /\ UNCHANGED <<registry_vars, feedback_vars, extract_vars>>

(***************************************************************************)
(* DataProcessor.extract_complaints driving LanguageModelProcessor.       *)
(***************************************************************************)
\* extract_complaints is not run
ExtractIdle ==
    /\ texts = <<>>
    /\ extract_pc = "none"

\* the non-empty titles, texts and comment texts of posts_data, in the order
\* the loops of lines 15-25 reach them
PostTexts == UNION {[1..n -> EmbeddingInputs] : n \in 0..MaxTexts}

\* DataProcessor.__init__, and extract_complaints called with posts_data
ExtractInit ==
    /\ processor = "embedding"
    /\ complaints = <<>>
    /\ embeddings = <<>>
    /\ provider \in [CleanedTexts -> Vectors]
    /\ calls = 0
    /\ ingested = 0
    /\ failed = 0
    /\ last = NoCall
    /\ texts \in PostTexts
    /\ extract_pc = "running"

\* lines 15-25: the next text is handed to process_complaint; nothing
\* catches an exception of get_embedding, which leaves extract_complaints
ExtractProcessComplaint ==
    /\ extract_pc = "running"
    /\ texts /= <<>>
    /\ \E failAt \in 0..LMP_process_complaint(complaints, embeddings, provider,
                                             Head(texts), 0).ncalls :
         \E r \in {LMP_process_complaint(complaints, embeddings, provider,
                                         Head(texts), failAt)} :
            /\ complaints' = r.complaints
            /\ embeddings' = r.embeddings
            /\ ingested' = ingested + Counted(r.outcome)
            /\ failed' = failed + (IF r.outcome = "raised" THEN 1 ELSE 0)
            /\ last' = [outcome |-> r.outcome, candidate |-> r.candidate,
                        target |-> r.target, scores |-> r.scores,
                        most_similar |-> r.most_similar,
                        text |-> Head(texts)]
            /\ extract_pc' = IF r.outcome = "raised" THEN "raised" ELSE "running"
    /\ texts' = Tail(texts)
    /\ calls' = calls + 1
    /\ UNCHANGED <<processor, provider>>
    /\ UNCHANGED <<feedback_vars, pure_vars>>

\* line 27: return self.lm_processor.get_complaints()
ExtractReturns ==
    /\ extract_pc = "running"
    /\ texts = <<>>
    /\ extract_pc' = "returned"
    /\ UNCHANGED texts
    /\ UNCHANGED <<registry_vars, feedback_vars, pure_vars>>

(***************************************************************************)
(* Specifications: the registries, and the feedback analyzer.             *)
(***************************************************************************)
Init == RegistryInit /\ FeedbackIdle /\ PureIdle /\ ExtractIdle

Next == KeywordProcessComplaint \/ EmbeddingProcessComplaint

Spec == Init /\ [][Next]_vars

InitFeedback == RegistryIdle /\ FeedbackInit /\ PureIdle /\ ExtractIdle

NextFeedback ==
    \/ AnalyzeFeedback
    \/ ClassifyPost
    \/ ClassifyPostFails
    \/ ProcessItem
    \/ AnalyzeFeedbackReturns

SpecFeedback == InitFeedback /\ [][NextFeedback]_vars

\* the pure functions, each applied to an argument
InitPure == RegistryIdle /\ FeedbackIdle /\ PureInit /\ ExtractIdle

NextPure ==
    \/ CleanText
    \/ CleanTextAgain
    \/ CleanComplaint
    \/ CleanComplaintAgain
    \/ GetComplaintCategory

SpecPure == InitPure /\ [][NextPure]_vars

\* extract_complaints over the embedding registry
InitExtract == ExtractInit /\ FeedbackIdle /\ PureIdle

NextExtract == ExtractProcessComplaint \/ ExtractReturns

SpecExtract == InitExtract /\ [][NextExtract]_vars

(***************************************************************************)
(* Definitions the properties are stated with.                            *)
(***************************************************************************)
RECURSIVE SumCounts(_)
SumCounts(cs) == IF cs = <<>> THEN 0 ELSE Head(cs).count + SumCounts(Tail(cs))

\* the last call completed and took its text into the registry
Accepted(l) == l.outcome \in {"merged", "created"}

\* keyword strategy: whether two representative texts resolve to the same
\* category, and how many keywords of that category both hold as whole words
keyword_relation_of ==
    [a \in Summaries, b \in Summaries |->
        LET la == lower(a)
            lb == lower(b)
            ca == get_complaint_category(la)
        IN  [same_category |-> ca = get_complaint_category(lb),
             shared |-> Cardinality({k \in Range(keywords_of(ca)) :
                                        /\ \E i \in 1..Len(split(la)) : split(la)[i] = k
                                        /\ \E i \in 1..Len(split(lb)) : split(lb)[i] = k})]]
    @@ <<>>

\* the similarity score of the keyword strategy: 0 across categories
KeywordScore(a, b) ==
    IF keyword_relation_of[a, b].same_category THEN keyword_relation_of[a, b].shared ELSE 0

MinimumOverlap == 2

\* embedding strategy, in exact arithmetic: the cosine of a and b is defined
\* when neither is the zero vector
CosDefined(a, b) == dot(a, a) > 0 /\ dot(b, b) > 0

\* cos(a, b) >= 0.85
CosQualifies(a, b) ==
    /\ CosDefined(a, b)
    /\ dot(a, b) > 0
    /\ 400 * dot(a, b) * dot(a, b) >= 289 * dot(a, a) * dot(b, b)

\* cos(a, b) < cos(a, c), both defined
CosLess(a, b, c) ==
    LET p == dot(a, b)
        q == dot(a, c)
        nb == dot(b, b)
        nc == dot(c, c)
    IN  /\ CosDefined(a, b) /\ CosDefined(a, c)
        /\ \/ p < 0 /\ q >= 0
           \/ p = 0 /\ q > 0
           \/ p > 0 /\ q > 0 /\ p * p * nc < q * q * nb
           \/ p < 0 /\ q < 0 /\ p * p * nc > q * q * nb

IsZero(v) == dot(v, v) = 0

\* embedding strategy: the entries of cs whose cosine with the candidate c is
\* defined and is the highest of the defined ones
Highest(cs, c) ==
    {i \in 1..Len(cs) :
        /\ CosDefined(provider[c], provider[cs[i].text])
        /\ \A j \in 1..Len(cs) :
               ~CosLess(provider[c], provider[cs[i].text], provider[cs[j].text])}

\* the entries of cs that qualify as a match of the candidate c
Qualifying(cs, c) ==
    IF processor = "keyword"
    THEN {i \in 1..Len(cs) : KeywordScore(c, cs[i].text) >= MinimumOverlap}
    ELSE {i \in 1..Len(cs) : CosQualifies(provider[c], provider[cs[i].text])}

\* entry j scores strictly higher than entry i against the candidate c
ScoresHigher(cs, c, j, i) ==
    IF processor = "keyword"
    THEN KeywordScore(c, cs[j].text) > KeywordScore(c, cs[i].text)
    ELSE CosLess(provider[c], provider[cs[i].text], provider[cs[j].text])

\* the qualifying entries with the highest score
Best(cs, c) ==
    {i \in Qualifying(cs, c) : \A j \in Qualifying(cs, c) : ~ScoresHigher(cs, c, j, i)}

\* the entries whose count the step raises
Raised == {i \in 1..Len(complaints) :
              i <= Len(complaints') /\ complaints'[i].count > complaints[i].count}

(***************************************************************************)
(* C1.  From a fresh registry, after any sequence of process_complaint    *)
(* calls (none of them ended by a provider error), the sum of the counts  *)
(* equals the number of texts that were not discarded.                    *)
(***************************************************************************)
C1_SumOfCounts == failed = 0 => SumCounts(complaints) = ingested

(***************************************************************************)
(* C2.  Every process_complaint call leaves each existing entry in place  *)
(* with a count that is not lower, so neither the number of entries nor   *)
(* the sum of the counts decreases.                                       *)
(***************************************************************************)
C2_Monotonic ==
    [][/\ Len(complaints') >= Len(complaints)
       /\ SumCounts(complaints') >= SumCounts(complaints)
       /\ \A i \in 1..Len(complaints) :
             /\ complaints'[i].text = complaints[i].text
             /\ complaints'[i].count >= complaints[i].count]_vars

\* a text was stored over an existing entry while another entry already
\* counts several texts
C2_Witness ==
    /\ ingested > SumCounts(complaints)
    /\ \E i \in 1..Len(complaints) : complaints[i].count >= 2

(***************************************************************************)
(* C5.  When several existing entries share the highest, qualifying score *)
(* against a candidate, the earliest registered of them is the one that   *)
(* is incremented.                                                         *)
(***************************************************************************)
C5_TieBreak ==
    [][(Accepted(last') /\ Cardinality(Best(complaints, last'.candidate)) >= 2)
          => complaints' = dict_increment(complaints,
                 complaints[Min(Best(complaints, last'.candidate))].text)]_vars

(***************************************************************************)
(* C6.  Keyword strategy: the entry that is incremented is one with the   *)
(* largest number of shared category keywords among the entries that      *)
(* reach the minimum of 2; if none reaches it there is no match.          *)
(***************************************************************************)
C6_LexicalBestMatch ==
    [][(processor = "keyword" /\ Accepted(last'))
          => IF Qualifying(complaints, last'.candidate) = {}
             THEN last'.outcome = "created"
             ELSE /\ last'.outcome = "merged"
                  /\ \E i \in Best(complaints, last'.candidate) :
                        /\ complaints[i].text = last'.target
                        /\ Raised = {i}]_vars

(***************************************************************************)
(* C7.  Keyword strategy: an entry is incremented only by a candidate     *)
(* summary of the same category that shares at least 2 whole-word         *)
(* keywords of that category with it.                                     *)
(***************************************************************************)
C7_LexicalPrecondition ==
    [][processor = "keyword"
          => \A i \in Raised :
                /\ keyword_relation_of[last'.candidate, complaints[i].text].same_category
                /\ keyword_relation_of[last'.candidate, complaints[i].text].shared
                       >= MinimumOverlap]_vars

\* a summary was merged into an entry while an entry of another category
\* that holds two of the candidate's words is registered too
C7_Witness ==
    /\ processor = "keyword"
    /\ last.outcome = "merged"
    /\ \E i \in 1..Len(complaints) :
          /\ ~keyword_relation_of[last.candidate, complaints[i].text].same_category
          /\ Cardinality(Range(split(lower(last.candidate)))
                             \cap Range(split(lower(complaints[i].text)))
                             \cap Range(keywords_of("battery"))) >= 2

(***************************************************************************)
(* C8.  Embedding strategy: is_similar_complaint reports a match exactly   *)
(* when the highest cosine similarity between the candidate and the       *)
(* existing entries is at least 0.85; the entry it returns, with a match  *)
(* or without one, attains that highest similarity, and it is the entry   *)
(* that is incremented; with no entry there is no match.                  *)
(***************************************************************************)
C8_EmbeddingBestMatch ==
    [][(processor = "embedding" /\ Accepted(last'))
          => /\ (last'.outcome = "merged") <=> (Qualifying(complaints, last'.candidate) /= {})
             /\ last'.most_similar /= ""
                   => \E i \in Highest(complaints, last'.candidate) :
                         complaints[i].text = last'.most_similar
             /\ last'.outcome = "merged"
                   => /\ last'.most_similar /= ""
                      /\ last'.target = last'.most_similar
             /\ complaints = <<>> => last'.outcome = "created"]_vars

\* a match went to the second entry, which scores higher than the first one,
\* although the first one qualifies too
C8_Witness ==
    /\ processor = "embedding"
    /\ last.outcome = "merged"
    /\ Len(complaints) >= 2
    /\ last.most_similar = complaints[2].text
    /\ CosQualifies(provider[last.candidate], provider[complaints[1].text])

(***************************************************************************)
(* C9.  Embedding strategy: a pair with a zero vector scores 0, is never  *)
(* a match, and a candidate whose cleaned text is the text of an existing *)
(* entry does not overwrite that entry's count.                           *)
(***************************************************************************)
C9_ZeroVector ==
    [][(processor = "embedding" /\ Accepted(last'))
          => LET c == last'.candidate
                 zero(i) == IsZero(provider[c]) \/ IsZero(provider[complaints[i].text])
             IN  /\ \A i \in 1..Len(last'.scores) :
                        zero(i) => (~IsNaN(last'.scores[i]) /\ last'.scores[i].d = 0)
                 /\ \A i \in Raised : ~zero(i)
                 /\ \A i \in 1..Len(complaints) :
                        (zero(i) /\ complaints[i].text = c) => last'.outcome /= "created"]_vars

(***************************************************************************)
(* C10.  A call that finds a match raises the count of the matched entry  *)
(* by exactly 1, keeps every key, changes no other count and adds no      *)
(* entry.                                                                 *)
(***************************************************************************)
C10_MergeFrame ==
    [][last'.outcome = "merged"
          => /\ keys(complaints') = keys(complaints)
             /\ \E i \in 1..Len(complaints) :
                   /\ complaints[i].text = last'.target
                   /\ complaints'[i].count = complaints[i].count + 1
                   /\ \A j \in (1..Len(complaints)) \ {i} :
                         complaints'[j].count = complaints[j].count]_vars

\* a text was merged into an entry whose representative text differs from
\* it, next to another entry
C10_Witness ==
    /\ last.outcome = "merged"
    /\ last.candidate /= last.target
    /\ Len(complaints) >= 2

\* the sum of all cells of the matrix
RECURSIVE SumOver(_, _)
SumOver(f, S) ==
    IF S = {} THEN 0
    ELSE LET x == CHOOSE y \in S : TRUE IN f[x] + SumOver(f, S \ {x})

MatrixSum ==
    SumOver([c \in Range(feature_categories) \X Range(feedback_types) |->
                feedback_matrix[c[1]][c[2]]],
            Range(feature_categories) \X Range(feedback_types))

SourceSum == SumOver(feedback_by_source, DOMAIN feedback_by_source)

(***************************************************************************)
(* C3.  At every point of analyze_feedback and after it, the sum of all   *)
(* matrix cells equals the number of items that passed validation, for    *)
(* every source tag of the fetchers.                                      *)
(***************************************************************************)
C3_MatrixConservation == MatrixSum = validated

\* the call is over, two items passed validation, one of them in a post
\* whose source tag is no key of the tally
C3_Witness ==
    /\ pc = "idle"
    /\ validated >= 2
    /\ Len(feedback_details) < validated
    /\ Len(feedback_details) >= 1

(***************************************************************************)
(* C4.  After a run of analyze_feedback the sum of all matrix cells       *)
(* equals the sum of the source tallies, for every source tag of the      *)
(* fetchers.                                                               *)
(***************************************************************************)
C4_OneCellOneTally == (pc = "idle" /\ runs > 0) => MatrixSum = SourceSum

(***************************************************************************)
(* C11.  A call that accepts a text and finds no match adds exactly one   *)
(* entry, with the count 1, and leaves every existing entry as it was,    *)
(* also when the new text is the text of an existing entry.               *)
(***************************************************************************)
C11_NewEntryFrame ==
    [][last'.outcome = "created"
          => /\ Len(complaints') = Len(complaints) + 1
             /\ complaints'[Len(complaints')] = [text |-> last'.candidate, count |-> 1]
             /\ \A i \in 1..Len(complaints) : complaints'[i] = complaints[i]]_vars

\* the number of whitespace-delimited tokens of a text once it is cleaned:
\* by _clean_text, and by _clean_complaint before it rejects short texts
keyword_tokens_of == [t \in KeywordInputs |-> Len(split(clean_text_of[t]))] @@ <<>>

embedding_tokens_of ==
    [t \in EmbeddingInputs |-> Len(split(sub_punct(sub_urls(t), {})))] @@ <<>>

TokensAfterCleaning(p, t) ==
    IF p = "keyword" THEN keyword_tokens_of[t] ELSE embedding_tokens_of[t]

MinimumTokens == 3

(***************************************************************************)
(* C12.  In either registry, a call with a text that has fewer than 3     *)
(* tokens after cleaning leaves the complaints dictionary as it was.      *)
(***************************************************************************)
C12_DiscardLaw ==
    [][(calls' = calls + 1
            /\ TokensAfterCleaning(processor, last'.text) < MinimumTokens)
          => complaints' = complaints]_vars

\* a text of one or two tokens was handed to a registry that holds entries
C12_Witness ==
    /\ calls > 0
    /\ complaints /= <<>>
    /\ TokensAfterCleaning(processor, last.text) \in 1..2
    /\ last.outcome = "discarded"

\* keyword strategy: the cleaned text holds no keyword of any category
uncategorized_of ==
    [t \in KeywordInputs |->
        \A i \in 1..Len(complaint_keywords) :
            category_score(lower(clean_text_of[t]), complaint_keywords[i].keywords) = 0]
    @@ <<>>

\* keyword strategy: the cleaned text is one sentence of a size that a
\* summary may have, and it holds a complaint indicator
summary_sized_complaint_of ==
    [t \in KeywordInputs |->
        /\ reasonably_sized(clean_text_of[t])
        /\ ContainsAny(lower(clean_text_of[t]), complaint_indicators)]
    @@ <<>>

(***************************************************************************)
(* C20.  Keyword strategy: a call with a text in which the categorizer    *)
(* finds no keyword of any category creates no entry and raises no count. *)
(***************************************************************************)
C20_UncategorizedNotClustered ==
    [][(processor = "keyword" /\ calls' = calls + 1 /\ uncategorized_of[last'.text])
          => complaints' = complaints]_vars

\* a text without keyword, of a sentence size and with a complaint
\* indicator, was handed to a registry that holds entries
C20_Witness ==
    /\ processor = "keyword"
    /\ calls > 0
    /\ complaints /= <<>>
    /\ uncategorized_of[last.text]
    /\ summary_sized_complaint_of[last.text]
    /\ last.outcome = "discarded"

(***************************************************************************)
(* C17. Unknown label rejection: when the item the loop of analyze_feedback *)
(* visits has a feature that is no member of feature_categories, or a type *)
(* that is no member of feedback_types, the iteration leaves the feedback  *)
(* matrix, the source tally and the detail list unchanged, and the loop    *)
(* goes on with the other items of the same post.                          *)
(***************************************************************************)
C17_UnknownLabelRejection ==
    [][(pc = "items" /\ items /= <<>> /\ unknown_label(Head(items)))
          => /\ feedback_matrix' = feedback_matrix
             /\ feedback_by_source' = feedback_by_source
             /\ feedback_details' = feedback_details
             /\ item_outcome' = "unknown_label"
             /\ items' = Tail(items)
             /\ post' = post
             /\ (items' /= <<>> => pc' = "items")]_vars

\* an item with an unknown label was skipped while rows of an earlier post
\* are recorded, and the next item of the same post, which passes the
\* checks, is about to be visited
C17_Witness ==
    /\ item_outcome = "unknown_label"
    /\ pc = "items"
    /\ items /= <<>>
    /\ passes_of[Head(items)]
    /\ feedback_details /= <<>>

\* a string of tokens separated by single spaces: every whitespace character
\* is a space that stands between two characters that are not whitespace
single_spaced(s) ==
    \A i \in 1..Len(s) :
        Char(s, i) \in Spaces
            => /\ Char(s, i) = " "
               /\ 1 < i /\ i < Len(s)
               /\ Char(s, i + 1) \notin Spaces

\* the tokens of a single-spaced string
token_count(s) ==
    IF s = "" THEN 0 ELSE Cardinality({i \in 1..Len(s) : Char(s, i) = " "}) + 1

\* re.search(r'http\S+|www\S+|https\S+', s) finds a match
matches_url(s) == \E i \in 1..Len(s) : UrlStartsAt(s, i)

(***************************************************************************)
(* C13. CleanedText invariant: what _clean_complaint or _clean_text        *)
(* returns is the empty string, or a string of at least 3 tokens separated *)
(* by single spaces, without leading or trailing space and without a       *)
(* substring that matches the URL pattern.                                 *)
(***************************************************************************)
C13_CleanedTextInvariant ==
    (fn \in Normalizers /\ out /= None)
        => \/ out = ""
           \/ /\ single_spaced(out)
              /\ token_count(out) >= MinimumTokens
              /\ ~matches_url(out)

(***************************************************************************)
(* C14. Idempotence of normalization: _clean_complaint applied to what     *)
(* _clean_complaint returned returns it unchanged, and so does _clean_text *)
(* applied to what _clean_text returned.                                   *)
(***************************************************************************)
C14_Idempotence == (fn \in Normalizers /\ again /= None) => again = out

\* _clean_complaint removed a URL and punctuation, kept at least 3 tokens, and
\* was applied again to its result
C14_Witness ==
    /\ fn = "_clean_complaint"
    /\ again /= None
    /\ out /= ""
    /\ out /= arg
    /\ matches_url(arg)

(***************************************************************************)
(* C18. Categorizer selection: _get_complaint_category returns a category  *)
(* whose keyword count for the text is the highest, and among the          *)
(* categories with the highest count the one declared first in the         *)
(* complaint_keywords table.                                               *)
(***************************************************************************)
C18_CategorizerSelection ==
    (fn = "_get_complaint_category" /\ out /= None)
        => \E i \in 1..Len(complaint_keywords) :
              /\ out = complaint_keywords[i].category
              /\ \A j \in 1..Len(complaint_keywords) :
                    category_scores_of(lower(arg))[j] <= category_scores_of(lower(arg))[i]
              /\ \A j \in 1..(i - 1) :
                    category_scores_of(lower(arg))[j] < category_scores_of(lower(arg))[i]

\* 'battery' and 'hardware' share the highest count, no category declared
\* before 'battery' reaches it, and 'battery' was returned
C18_Witness ==
    /\ fn = "_get_complaint_category"
    /\ out = "battery"
    /\ Contains(lower(arg), "usb")
    /\ category_scores_of(lower(arg))[3] = category_scores_of(lower(arg))[9]

\* text has no trigger keyword of any category
scores_all_zero(text) ==
    \A i \in 1..Len(complaint_keywords) : category_scores_of(lower(text))[i] = 0

\* the value of line 41
uncategorized == "other"

(***************************************************************************)
(* C19. Uncategorized sentinel: for a text in which every category scores *)
(* 0, _get_complaint_category returns the uncategorized sentinel and not   *)
(* one of the categories of the table.                                     *)
(***************************************************************************)
C19_UncategorizedSentinel ==
    (fn = "_get_complaint_category" /\ out /= None /\ scores_all_zero(arg))
        => /\ out = uncategorized
           /\ \A i \in 1..Len(complaint_keywords) : out /= complaint_keywords[i].category

(***************************************************************************)
(* C16. Provider failure isolation, for extract_complaints: a failure of   *)
(* the embedding call for one text does not abort extract_complaints; the  *)
(* text is skipped and the loop stays ready to process the later texts.    *)
(***************************************************************************)
C16_ProviderFailureIsolation ==
    failed > 0 => extract_pc \in {"running", "returned"}

(***************************************************************************)
(* C21. Battery scenario: "The battery drains too fast and overheats       *)
(* constantly" and then "Battery drains extremely quickly and the phone    *)
(* gets hot", ingested into a fresh keyword registry, leave exactly one    *)
(* entry, with count 2.                                                    *)
(***************************************************************************)
C21_BatteryScenario ==
    [][(/\ processor = "keyword"
        /\ calls = 1
        /\ last.text = "The battery drains too fast and overheats constantly"
        /\ calls' = 2
        /\ last'.text = "Battery drains extremely quickly and the phone gets hot")
          => /\ Len(complaints') = 1
             /\ complaints'[1].count = 2]_vars

(***************************************************************************)
(* C22. Positive-text scenario: "Great camera, love the photos" ingested   *)
(* into a fresh keyword registry creates no entry.                         *)
(***************************************************************************)
C22_PositiveTextScenario ==
    (/\ processor = "keyword"
     /\ calls = 1
     /\ last.text = "Great camera, love the photos")
        => complaints = <<>>

\* the text was the first one handed to a keyword registry, and was dropped
C22_Witness ==
    /\ processor = "keyword"
    /\ calls = 1
    /\ last.text = "Great camera, love the photos"
    /\ last.outcome = "discarded"
    /\ category_of[last.text] = "camera"

\* whether a summary holds one of the positive indicators
has_positive_of ==
    [summary \in Summaries |-> ContainsAny(lower(summary), positive_indicators)] @@ <<>>

(***************************************************************************)
(* C25. Positive-sentiment filter: no entry of the keyword registry has a  *)
(* representative text that contains a positive-sentiment word.           *)
(***************************************************************************)
C25_PositiveSentimentFilter ==
    processor = "keyword"
        => \A i \in 1..Len(complaints) : ~has_positive_of[complaints[i].text]

(***************************************************************************)
(* C26. Summary fallback: a text that is not empty after cleaning and has  *)
(* a trigger keyword of some category always yields a representative text *)
(* for the registry: the call creates an entry or merges into one.         *)
(***************************************************************************)
C26_SummaryFallback ==
    [][(/\ processor = "keyword"
        /\ calls' = calls + 1
        /\ clean_text_of[last'.text] /= ""
        /\ ~uncategorized_of[last'.text])
          => last'.outcome \in {"created", "merged"}]_vars

\* the sentences of the cleaned text that have 5 to 25 tokens, a keyword of
\* the category and a complaint indicator; without those that hold a
\* positive indicator when direct is TRUE
complaint_sentences(text, category, direct) ==
    LET pieces == split_sentences(text)
        stripped == [i \in 1..Len(pieces) |-> strip(pieces[i])]
    IN  SelectSeq(stripped,
                  LAMBDA x : /\ x /= ""
                             /\ reasonably_sized(x)
                             /\ ContainsAny(lower(x), keywords_of(category))
                             /\ ContainsAny(lower(x), complaint_indicators)
                             /\ (direct => ~ContainsAny(lower(x), positive_indicators)))

complaint_sentences_of ==
    [t \in KeywordInputs |-> complaint_sentences(clean_text_of[t], category_of[t], FALSE)]
        @@ <<>>

direct_complaints_of ==
    [t \in KeywordInputs |-> complaint_sentences(clean_text_of[t], category_of[t], TRUE)]
        @@ <<>>

\* sentence is in seq, no element of seq is shorter and none before it is as
\* short
first_shortest(seq, sentence) ==
    \E i \in 1..Len(seq) :
        /\ seq[i] = sentence
        /\ \A j \in 1..Len(seq) : Len(seq[i]) <= Len(seq[j])
        /\ \A j \in 1..(i - 1) : Len(seq[j]) > Len(seq[i])

(***************************************************************************)
(* C27, as stated. Summary admission: every representative text the        *)
(* keyword registry creates is a sentence of the cleaned input (closed by  *)
(* a period) that has 5 to 25 tokens, a keyword of the text's category and *)
(* a complaint indicator, and it is the shortest of the sentences of that  *)
(* kind.                                                                   *)
(***************************************************************************)
C27_SummaryAdmissionStated ==
    [][(processor = "keyword" /\ last'.outcome = "created")
          => \E i \in 1..Len(complaint_sentences_of[last'.text]) :
                /\ last'.candidate = complaint_sentences_of[last'.text][i] \o "."
                /\ \A j \in 1..Len(complaint_sentences_of[last'.text]) :
                      Len(complaint_sentences_of[last'.text][i])
                          <= Len(complaint_sentences_of[last'.text][j])]_vars

(***************************************************************************)
(* C27, amended. Every representative text the keyword registry creates is *)
(* a sentence of the cleaned input (closed by a period) that has 5 to 25   *)
(* tokens, a keyword of the text's category and a complaint indicator.  It *)
(* is the first shortest of the sentences of that kind that hold no        *)
(* positive indicator when there is one, and the first shortest of all the *)
(* sentences of that kind otherwise.                                       *)
(***************************************************************************)
C27_SummaryAdmission ==
    [][(processor = "keyword" /\ last'.outcome = "created")
          => \E sentence \in Range(complaint_sentences_of[last'.text]) :
                /\ last'.candidate = sentence \o "."
                /\ first_shortest(IF direct_complaints_of[last'.text] /= <<>>
                                  THEN direct_complaints_of[last'.text]
                                  ELSE complaint_sentences_of[last'.text],
                                  sentence)]_vars

\* an entry was created from a text with two sentences of that kind, and its
\* text is the second, shorter one
C27_Witness ==
    /\ processor = "keyword"
    /\ last.outcome = "created"
    /\ Len(direct_complaints_of[last.text]) = 2
    /\ last.candidate = direct_complaints_of[last.text][2] \o "."
    /\ complaints /= <<>>
    /\ complaints[Len(complaints)].text = last.candidate

(***************************************************************************)
(* C28. Embedding cache consistency: after every process_complaint call of *)
(* the embedding registry that returns normally, the texts with a cached   *)
(* embedding are exactly the texts of the entries.                         *)
(***************************************************************************)
C28_EmbeddingCacheConsistency ==
    (processor = "embedding" /\ last.outcome \in {"discarded", "merged", "created"})
        => DOMAIN embeddings = Range(keys(complaints))

(***************************************************************************)
(* C29. State unchanged on provider error: a process_complaint call of the *)
(* embedding registry in which get_embedding raises leaves the complaints  *)
(* dictionary as it was before the call.                                   *)
(***************************************************************************)
C29_UnchangedOnProviderError ==
    [][(processor = "embedding" /\ calls' = calls + 1 /\ last'.outcome = "raised")
          => complaints' = complaints]_vars

\* the matrix that counts the rows from 1 to n: all zero, then one more in
\* the cell of each row
RECURSIVE matrix_upto(_, _)
matrix_upto(rows, n) ==
    IF n = 0 THEN zero_matrix
    ELSE [matrix_upto(rows, n - 1) EXCEPT ![rows[n].feature][rows[n].feedback_type] = @ + 1]

matrix_of(rows) == matrix_upto(rows, Len(rows))

\* the tally that counts the rows by the keys of feedback_by_source
tally_of(rows) ==
    [k \in source_keys |-> Cardinality({i \in 1..Len(rows) : rows[i].source = k})]

(***************************************************************************)
(* C23. Record scenario: when the items accepted in a call are one         *)
(* (camera, missing_feature) item of a reddit post and then one            *)
(* (camera, missing_feature) item of a youtube post, the cell              *)
(* (camera, missing_feature) is 2 and the source tally is reddit 1,        *)
(* youtube 1 (and nothing for twitter).                                    *)
(***************************************************************************)
C23_RecordScenario ==
    (/\ Len(accepted) = 2
     /\ accepted[1].feature = "camera" /\ accepted[1].feedback_type = "missing_feature"
     /\ accepted[1].source \in {"reddit_post", "reddit_comment"}
     /\ accepted[2].feature = "camera" /\ accepted[2].feedback_type = "missing_feature"
     /\ accepted[2].source = "youtube")
        => /\ feedback_matrix["camera"]["missing_feature"] = 2
           /\ feedback_by_source = [k \in source_keys |->
                                       IF k \in {"reddit", "youtube"} THEN 1 ELSE 0]

(***************************************************************************)
(* C24. Detail records: between any two items of a call, feedback_details *)
(* holds one row per accepted item, in the order the items arrived, and    *)
(* its length is the sum of the matrix cells.                              *)
(***************************************************************************)
C24_DetailRecords ==
    runs > 0 => /\ feedback_details = accepted
                /\ Len(feedback_details) = MatrixSum

(***************************************************************************)
(* C30. Aggregation reset: every analyze_feedback call starts from an      *)
(* all-zero matrix, an all-zero source tally and an empty detail list, and *)
(* at every point of a call the matrix, the tally and the details are      *)
(* those of the items accepted in this call alone: nothing of an earlier   *)
(* call is left in them, so the same posts and classifications give the    *)
(* same result in a second call as in a first.                             *)
(***************************************************************************)
C30_AggregationReset ==
    [][/\ runs' = runs + 1
          => /\ feedback_matrix' = zero_matrix
             /\ feedback_by_source' = [k \in source_keys |-> 0]
             /\ feedback_details' = <<>>
       /\ feedback_matrix' = matrix_of(accepted')
       /\ feedback_by_source' = tally_of(accepted')
       /\ feedback_details' = SelectSeq(accepted', LAMBDA row : row.source \in source_keys)
      ]_vars

\* a second call has ended, with items accepted in it
C30_Witness ==
    /\ runs = 2
    /\ pc = "idle"
    /\ Len(accepted) >= 2
    /\ feedback_details = accepted
    /\ feedback_matrix = matrix_of(accepted)

====
